---- MODULE Spec2Model ----
(***************************************************************************)
(* The Stripe subscription lifecycle of the stripe-payments function       *)
(* (src/stripe-payments.js lines 20-289): create-checkout, webhook,        *)
(* customer-portal and subscription-status, run as concurrent stateless    *)
(* invocations over the users and payments tables (src/unnamed/part_000).  *)
(* Every awaited call to the store or to the payments processor is one     *)
(* step of an invocation; invocations interleave between steps.            *)
(***************************************************************************)
EXTENDS Integers, Sequences, FiniteSets, Bags, TLC

\* ---------------------------------------------------------------- bounds
MaxRequests == 3      \* requests started in one behaviour
MaxInvoices == 2      \* invoices the processor issues per customer
MaxRedeliveries == 1  \* redeliveries of an event the handler failed on

\* ---------------------------------------------------------------- values
Null == 0                              \* SQL NULL / JS null, undefined
Procs == {1, 2}                        \* concurrent invocations
UserIds == {1, 2}                      \* rows of the users table
AuthSubjects == UserIds \cup {3}       \* userId of a signed token; 3 has no row
UnknownUser == CHOOSE u \in AuthSubjects : u \notin UserIds
ForeignCustomer == MaxRequests + 1     \* a processor customer no checkout of this app created
InvoiceNumbers == 1 .. MaxInvoices
Times == 1 .. MaxInvoices

PriceIds == {"price_basic", "price_premium", "price_unknown"}
CatalogPrices == {"price_basic", "price_premium"}

Signatures == {"valid", "mismatch", "malformed"}

AuthHeaders ==
    {[kind |-> k, userId |-> Null] : k \in {"missing", "not-bearer", "bearer-invalid"}}
        \cup {[kind |-> "bearer-valid", userId |-> u] : u \in AuthSubjects}

\* a switch whose customer.created events fall into a handled case
HandledTypes_FallsThrough ==
    {"checkout.session.completed", "invoice.payment_succeeded",
     "invoice.payment_failed", "customer.subscription.deleted", "customer.created"}

HandledTypes ==
    {"checkout.session.completed", "invoice.payment_succeeded",
     "invoice.payment_failed", "customer.subscription.deleted"}

NoEvent ==
    [type |-> "none", customer |-> Null, subscription |-> Null,
     user_id |-> Null, num |-> 0, price |-> "none", message |-> "none"]

Idle ==
    [pc |-> "idle", route |-> "none", cred |-> "none", userId |-> Null,
     priceId |-> "none", userData |-> Null, customerId |-> Null, ev |-> NoEvent,
     attempt |-> 0,     \* redeliveries of ev so far
     before |-> 0]      \* payments rows of ev's invoice when ev was first delivered

NoResponse == [route |-> "none", cred |-> "none", status |-> 0]

VARIABLES
    users,      \* users table: id -> billing columns of the row
    payments,   \* payments table: the bag of its rows (ids are generated)
    customers,  \* processor side: customer id -> metadata.user_id
    sessions,   \* processor side: checkout sessions created
    proc,       \* each invocation's position and locals
    resp,       \* the last response returned, with the request's route and credential
    nreq,       \* requests started
    raced,      \* per account: a create-checkout started while another one for it was in flight
    seen        \* per account: the status of the last event verified for it

vars == <<users, payments, customers, sessions, proc, resp, nreq, raced, seen>>

\* ------------------------------------------------------ pure functions

\* a verifier that decodes a bearer token without checking it
verifyToken_TrustsUnverified(authHeader) ==
    IF authHeader.kind = "missing" \/ authHeader.kind = "not-bearer"
    THEN Null
    ELSE IF authHeader.kind = "bearer-valid" THEN authHeader.userId
         ELSE CHOOSE u \in UserIds : TRUE

\* verifyToken: null unless the header is "Bearer <token>" and jwt.verify accepts the token
verifyToken(authHeader) ==
    IF authHeader.kind = "missing" \/ authHeader.kind = "not-bearer"
    THEN Null
    ELSE IF authHeader.kind = "bearer-valid" THEN authHeader.userId ELSE Null

\* a verifier that checks the signature only when the header parses
constructEvent_SkipsMalformed(sig) == sig # "mismatch"

\* stripe.webhooks.constructEvent: returns the event iff the signature verifies, throws otherwise
constructEvent(sig) == sig = "valid"

\* a conversion that drops the cents
ToMajor_DropsCents(cents) == [whole |-> cents \div 100, frac |-> 0]

\* invoice.amount_paid / 100 and amount_due / 100, stored as DECIMAL(10,2)
ToMajor(cents) == [whole |-> cents \div 100, frac |-> cents % 100]

\* ------------------------------------------------- processor payloads

Amounts == <<7900, 2999, 1905>>
\* amount_paid / amount_due of a customer's n-th invoice, in cents
InvoiceAmount(n) == Amounts[((n - 1) % Len(Amounts)) + 1]
\* the n-th invoice is created at time n and pays for the period ending at n + 1
InvoiceCreated(n) == n
PeriodEnd(n) == n + 1
\* last_payment_error?.message of the n-th invoice: a decline message, or no error object
FailureMessage(n) == IF n % 2 = 1 THEN "card_declined" ELSE "none"
\* the invoice id: unique per customer and invoice number
InvoiceId(e) == <<e.customer, e.num>>

EventCustomers == (1 .. Len(customers)) \cup {ForeignCustomer}
\* the invoices of a customer, and the times its subscription can end at: the
\* customer created elsewhere has one invoice
InvoicesOf(c) == IF c = ForeignCustomer THEN {1} ELSE InvoiceNumbers
EndTimesOf(c) == IF c = ForeignCustomer THEN {1} ELSE Times
\* metadata.user_id the processor holds for a customer: the account a checkout
\* created it for, none for a customer created elsewhere
CustomerUser(c) == IF c \in 1 .. Len(customers) THEN customers[c] ELSE Null

SessionEvents ==
    {[type |-> "checkout.session.completed", customer |-> sessions[s].customer,
      subscription |-> s, user_id |-> sessions[s].user_id, num |-> 0,
      price |-> sessions[s].price, message |-> "none"] : s \in 1 .. Len(sessions)}

InvoiceEvents ==
    UNION {{[type |-> t, customer |-> c, subscription |-> Null,
             user_id |-> CustomerUser(c), num |-> n, price |-> "none",
             message |-> IF t = "invoice.payment_failed" THEN FailureMessage(n) ELSE "none"] :
                t \in {"invoice.payment_succeeded", "invoice.payment_failed"},
                n \in InvoicesOf(c)} : c \in EventCustomers}

\* ended_at of a deleted subscription is e.num; a subscription bought through
\* create-checkout carries subscription_data.metadata.user_id
CancelEvents ==
    UNION {{[type |-> "customer.subscription.deleted", customer |-> c,
             subscription |-> Null, user_id |-> CustomerUser(c), num |-> t, price |-> "none",
             message |-> "none"] : t \in EndTimesOf(c)} : c \in EventCustomers}

OtherEvents ==
    {[type |-> "customer.created", customer |-> c, subscription |-> Null,
      user_id |-> Null, num |-> 0, price |-> "none", message |-> "none"] :
        c \in EventCustomers}

\* the events the processor can sign and deliver in the current state
Events == SessionEvents \cup InvoiceEvents \cup CancelEvents \cup OtherEvents

\* ------------------------------------------------------- store operations

\* defaults of a users row
NewUser ==
    [stripe_customer_id |-> Null, stripe_subscription_id |-> Null,
     subscription_plan |-> "trial", subscription_status |-> "trialing",
     subscription_ends_at |-> Null]

\* .from('users').select(...).eq('id', id).single(): the row, or no data
SelectUser(id) == IF id \in UserIds THEN users[id] ELSE Null
HasRow(id) == id \in UserIds

\* .update(patch): the columns of patch overwrite the row's
Merge(row, patch) == [f \in DOMAIN row |-> IF f \in DOMAIN patch THEN patch[f] ELSE row[f]]

\* .from('users').update(patch).eq('stripe_customer_id', c)
UpdateByCustomer(us, c, patch) ==
    [u \in UserIds |-> IF us[u].stripe_customer_id = c THEN Merge(us[u], patch) ELSE us[u]]

\* an update without the filter on id
UpdateById_EveryRow(us, id, patch) == [u \in UserIds |-> Merge(us[u], patch)]

\* .from('users').update(patch).eq('id', id)
UpdateById(us, id, patch) ==
    [u \in UserIds |-> IF u = id THEN Merge(us[u], patch) ELSE us[u]]

\* an insert that replaces the rows already stored for the row's invoice
InsertPayment_ReplacesInvoice(rows, row) ==
    LET kept == {r \in BagToSet(rows) : r.stripe_invoice_id # row.stripe_invoice_id}
    IN  [r \in kept |-> rows[r]] (+) SetToBag({row})

\* .from('payments').insert(row): client_id REFERENCES users(id); a row that breaks
\* the constraint is rejected and the result is not looked at
InsertPayment(rows, row) ==
    IF row.client_id = Null \/ row.client_id \in UserIds THEN rows (+) SetToBag({row}) ELSE rows

\* ----------------------------------------------------- webhook payload -> writes

\* an update that binds the subscription and leaves the status alone
CheckoutCompletedPatch_KeepsStatus(e) ==
    [stripe_subscription_id |-> e.subscription, subscription_plan |-> "premium"]

CheckoutCompletedPatch(e) ==
    [stripe_subscription_id |-> e.subscription,
     subscription_status |-> "active",
     subscription_plan |-> "premium"]

SucceededRow(e) ==
    [client_id |-> e.user_id, stripe_invoice_id |-> InvoiceId(e),
     amount |-> ToMajor(InvoiceAmount(e.num)), status |-> "succeeded",
     failure_reason |-> "none"]

\* an update that marks the account active and leaves the period end alone
SucceededPatch_KeepsEnd(e) == [subscription_status |-> "active"]

SucceededPatch(e) ==
    [subscription_status |-> "active", subscription_ends_at |-> PeriodEnd(e.num)]

FailedRow(e) ==
    [client_id |-> e.user_id, stripe_invoice_id |-> InvoiceId(e),
     amount |-> ToMajor(InvoiceAmount(e.num)), status |-> "failed",
     failure_reason |-> e.message]

\* an update that also drops the subscription on a failed payment
FailedPatch_ClearsSubscription(e) ==
    [subscription_status |-> "past_due", stripe_subscription_id |-> Null]

FailedPatch(e) == [subscription_status |-> "past_due"]

\* a cancellation that keeps the stored period end
DeletedPatch_KeepsEnd(e) == [subscription_status |-> "cancelled"]

DeletedPatch(e) ==
    [subscription_status |-> "cancelled", subscription_ends_at |-> e.num]

\* the users update of each handled event type
UsersPatch(e) ==
    CASE e.type = "checkout.session.completed" -> CheckoutCompletedPatch(e)
      [] e.type = "invoice.payment_succeeded" -> SucceededPatch(e)
      [] e.type = "invoice.payment_failed" -> FailedPatch(e)
      [] e.type = "customer.subscription.deleted" -> DeletedPatch(e)

\* the payments insert of the two invoice event types
PaymentRow(e) ==
    IF e.type = "invoice.payment_succeeded" THEN SucceededRow(e) ELSE FailedRow(e)

\* ------------------------------------------------------------ invocations
\* An invocation runs alone up to its first awaited call: the steps below start at
\* an awaited call and run to the next one.

Free(p) == proc[p].pc = "idle" /\ nreq < MaxRequests

\* what the request presented: the signed event or token was genuine, or not
Presented(cred) ==
    IF cred = "none" THEN "none"
    ELSE IF cred \in {"valid", "bearer-valid"} THEN "genuine" ELSE "forged"

\* a return without a statusCode
Return_WithoutStatus(p, route, cred, status) ==
    /\ proc' = [proc EXCEPT ![p] = Idle]
    /\ resp' = [route |-> route, cred |-> Presented(cred), status |-> 0]

\* return { statusCode, ... }: the invocation ends
Return(p, route, cred, status) ==
    /\ proc' = [proc EXCEPT ![p] = Idle]
    /\ resp' = [route |-> route, cred |-> Presented(cred), status |-> status]

\* the step returns nothing yet
Continue(p, locals) ==
    /\ proc' = [proc EXCEPT ![p] = locals]
    /\ resp' = NoResponse

\* another create-checkout of the same account is in flight
Overlaps(p, u) ==
    \E q \in Procs \ {p} : proc[q].route = "create-checkout" /\ proc[q].userId = u

\* a checkout that creates a customer whatever it read
AfterSelect_AlwaysCreates(customerId) == "co_create"

\* userData.stripe_customer_id is set: reuse it, else create a customer first
AfterSelect(customerId) == IF customerId # Null THEN "co_session" ELSE "co_create"

\* POST create-checkout with authorization header h and a body that parses or
\* not: verifyToken, JSON.parse(event.body), then select stripe_customer_id, email
\* of the caller's row; userData is null without a row
CheckoutRequest(p, h, bodyOk, priceId) ==
    /\ Free(p)
    /\ nreq' = nreq + 1
    /\ LET user == verifyToken(h) IN
        IF user = Null
        THEN Return(p, "create-checkout", h.kind, 401) /\ UNCHANGED raced
        ELSE IF ~bodyOk \/ ~HasRow(user)
        THEN Return(p, "create-checkout", h.kind, 500) /\ UNCHANGED raced
        ELSE LET userData == SelectUser(user) IN
             /\ Continue(p, [Idle EXCEPT
                    !.pc = AfterSelect(userData.stripe_customer_id),
                    !.route = "create-checkout", !.cred = h.kind, !.userId = user,
                    !.priceId = priceId,
                    !.userData = userData.stripe_customer_id,
                    !.customerId = userData.stripe_customer_id])
             /\ raced' = [u \in UserIds |-> raced[u] \/ (u = user /\ Overlaps(p, u))]
    /\ UNCHANGED <<users, payments, customers, sessions, seen>>

\* POST create-checkout; priceId is read from the parsed body, after verifyToken
StartCheckout(p) ==
    \E h \in AuthHeaders, bodyOk \in BOOLEAN :
        \E priceId \in IF verifyToken(h) # Null /\ bodyOk THEN PriceIds
                        ELSE {Idle.priceId} :
            CheckoutRequest(p, h, bodyOk, priceId)

\* stripe.customers.create
CheckoutCreateCustomer(p) ==
    /\ proc[p].pc = "co_create"
    /\ \E ok \in BOOLEAN :
        IF ok
        THEN /\ customers' = Append(customers, proc[p].userId)
             /\ Continue(p, [proc[p] EXCEPT !.customerId = Len(customers) + 1,
                                            !.pc = "co_save"])
        ELSE /\ Return(p, "create-checkout", proc[p].cred, 500)
             /\ UNCHANGED customers
    /\ UNCHANGED <<users, payments, sessions, nreq, raced, seen>>

\* a checkout that marks the account active as it saves the customer
SaveCustomerPatch_Activates(customerId) ==
    [stripe_customer_id |-> customerId, subscription_status |-> "active"]

\* .update({ stripe_customer_id: customerId })
SaveCustomerPatch(customerId) == [stripe_customer_id |-> customerId]

\* update users set stripe_customer_id where id = userId
CheckoutSaveCustomer(p) ==
    /\ proc[p].pc = "co_save"
    /\ users' = UpdateById(users, proc[p].userId, SaveCustomerPatch(proc[p].customerId))
    /\ Continue(p, [proc[p] EXCEPT !.pc = "co_session"])
    /\ UNCHANGED <<payments, customers, sessions, nreq, raced, seen>>

\* stripe.checkout.sessions.create, then the 200 response
CheckoutCreateSession(p) ==
    /\ proc[p].pc = "co_session"
    /\ \E ok \in BOOLEAN :
        IF ok /\ proc[p].priceId \in CatalogPrices
        THEN /\ sessions' = Append(sessions,
                    [customer |-> proc[p].customerId, user_id |-> proc[p].userId,
                     price |-> proc[p].priceId])
             /\ Return(p, "create-checkout", proc[p].cred, 200)
        ELSE /\ Return(p, "create-checkout", proc[p].cred, 500)
             /\ UNCHANGED sessions
    /\ UNCHANGED <<users, payments, customers, nreq, raced, seen>>

\* the first awaited call of the event's case
FirstWrite(e) ==
    IF e.type \in {"invoice.payment_succeeded", "invoice.payment_failed"}
    THEN "wh_insert" ELSE "wh_update"

\* POST webhook: constructEvent, then the switch on the event type
StartWebhook(p) ==
    /\ Free(p)
    /\ nreq' = nreq + 1
    /\ \E sig \in Signatures :
        IF ~constructEvent(sig)
        THEN Return(p, "webhook", sig, 400)
        ELSE \E e \in Events :
            IF e.type \notin HandledTypes
            THEN Return(p, "webhook", sig, 200)
            ELSE Continue(p, [Idle EXCEPT !.route = "webhook", !.cred = sig, !.ev = e,
                                          !.pc = FirstWrite(e)])
    /\ UNCHANGED <<users, payments, customers, sessions, raced, seen>>

\* insert into payments (invoice.payment_succeeded, invoice.payment_failed)
WebhookInsert(p) ==
    /\ proc[p].pc = "wh_insert"
    /\ payments' = InsertPayment(payments, PaymentRow(proc[p].ev))
    /\ Continue(p, [proc[p] EXCEPT !.pc = "wh_update"])
    /\ UNCHANGED <<users, customers, sessions, nreq, raced, seen>>

\* update users where stripe_customer_id = the event's customer, then 200 {received: true}
WebhookUpdate(p) ==
    /\ proc[p].pc = "wh_update"
    /\ users' = UpdateByCustomer(users, proc[p].ev.customer, UsersPatch(proc[p].ev))
    /\ Return(p, "webhook", proc[p].cred, 200)
    /\ UNCHANGED <<payments, customers, sessions, nreq, raced, seen>>

\* a portal that never finds the reference missing
NoSubscription_Never(userData) == FALSE

\* !userData.stripe_customer_id
NoSubscription(userData) == userData.stripe_customer_id = Null

\* POST customer-portal with authorization header h: verifyToken, then select
\* stripe_customer_id of the caller's row
PortalRequest(p, h) ==
    /\ Free(p)
    /\ nreq' = nreq + 1
    /\ LET user == verifyToken(h) IN
        IF user = Null
        THEN Return(p, "customer-portal", h.kind, 401)
        ELSE IF ~HasRow(user)
        THEN Return(p, "customer-portal", h.kind, 500)
        ELSE LET userData == SelectUser(user) IN
             IF NoSubscription(userData)
             THEN Return(p, "customer-portal", h.kind, 400)
             ELSE Continue(p, [Idle EXCEPT
                      !.pc = "po_session", !.route = "customer-portal",
                      !.cred = h.kind, !.userId = user,
                      !.userData = userData.stripe_customer_id])
    /\ UNCHANGED <<users, payments, customers, sessions, raced, seen>>

\* POST customer-portal
StartPortal(p) == \E h \in AuthHeaders : PortalRequest(p, h)

\* stripe.billingPortal.sessions.create
PortalCreateSession(p) ==
    /\ proc[p].pc = "po_session"
    /\ \E ok \in BOOLEAN :
        Return(p, "customer-portal", proc[p].cred, IF ok THEN 200 ELSE 500)
    /\ UNCHANGED <<users, payments, customers, sessions, nreq, raced, seen>>

\* GET subscription-status: verifyToken, then select the subscription columns of the
\* caller's row; 200 with the data (null without a row)
SubscriptionStatus(p) ==
    /\ Free(p)
    /\ nreq' = nreq + 1
    /\ \E h \in AuthHeaders :
        LET user == verifyToken(h) IN
        Return(p, "subscription-status", h.kind, IF user = Null THEN 401 ELSE 200)
    /\ UNCHANGED <<users, payments, customers, sessions, raced, seen>>

\* OPTIONS (CORS preflight) and every other path or method
StartOther(p) ==
    /\ Free(p)
    /\ nreq' = nreq + 1
    /\ \E method \in {"OPTIONS", "GET"} :
        IF method = "OPTIONS"
        THEN Return(p, "options", "none", 200)
        ELSE Return(p, "not-found", "none", 404)
    /\ UNCHANGED <<users, payments, customers, sessions, raced, seen>>

\* --------------------------------------------------------- specification

Init ==
    /\ users = [u \in UserIds |-> NewUser]
    /\ payments = EmptyBag
    /\ customers = <<>>
    /\ sessions = <<>>
    /\ proc = [p \in Procs |-> Idle]
    /\ resp = NoResponse
    /\ nreq = 0
    /\ raced = [u \in UserIds |-> FALSE]
    /\ seen = [u \in UserIds |-> "none"]

Next ==
    \E p \in Procs :
        \/ StartCheckout(p)
        \/ CheckoutCreateCustomer(p)
        \/ CheckoutSaveCustomer(p)
        \/ CheckoutCreateSession(p)
        \/ StartWebhook(p)
        \/ WebhookInsert(p)
        \/ WebhookUpdate(p)
        \/ StartPortal(p)
        \/ PortalCreateSession(p)
        \/ SubscriptionStatus(p)
        \/ StartOther(p)

Spec == Init /\ [][Next]_vars

\* ------------------------------------------------------------- properties

\* invocation p takes the step
Steps(p) == proc'[p] # proc[p]
\* invocation p takes the users update of an event of type t
Applies(p, t) == proc[p].pc = "wh_update" /\ proc[p].ev.type = t /\ Steps(p)
\* invocation p takes the payments insert of an event of type t
Records(p, t) == proc[p].pc = "wh_insert" /\ proc[p].ev.type = t /\ Steps(p)
\* the accounts an event's customer id resolves to
AccountsOf(e) == {u \in UserIds : users[u].stripe_customer_id = e.customer}
\* payments rows carrying an invoice id, counted with their copies
RowsOfInvoice(id) == {r \in BagToSet(payments) : r.stripe_invoice_id = id}
CountOfInvoice(id) ==
    BagCardinality([r \in RowsOfInvoice(id) |-> payments[r]])
\* the routes that call verifyToken
AuthenticatedRoutes == {"create-checkout", "customer-portal", "subscription-status"}
\* processor customers created for an account
CustomersOf(u) == {c \in 1 .. Len(customers) : customers[c] = u}

\* C1: a webhook request whose signature does not verify is answered 400 and is not
\* processed: no invocation is ever past verification with such a signature, and
\* the step that answers it writes neither users nor payments.
C1_InvalidSignatureRejected ==
    /\ [](\A p \in Procs : proc[p].route = "webhook" => proc[p].cred = "valid")
    /\ [](resp.route = "webhook" /\ resp.cred = "forged" => resp.status = 400)
    /\ [][resp'.route = "webhook" /\ resp'.cred = "forged"
            => UNCHANGED <<users, payments>>]_vars

C1_Witness ==
    /\ resp.route = "webhook" /\ resp.cred = "forged" /\ resp.status = 400
    /\ \E u \in UserIds : users[u].stripe_customer_id # Null

\* C2: delivering the identical invoice.payment_succeeded event twice leaves exactly
\* one succeeded PaymentRecord of that event (the same event writes the same row).
C2_ReplayInsertsOnce ==
    \A r \in BagToSet(payments) : r.status = "succeeded" => payments[r] = 1

\* C3: each external invoice id appears in at most one PaymentRecord, whatever the
\* events (succeeded or failed) that named it.
C3_OneRecordPerInvoice ==
    \A r \in BagToSet(payments) : CountOfInvoice(r.stripe_invoice_id) <= 1

\* C4: an account cancelled by customer.subscription.deleted stays cancelled when an
\* invoice.payment_succeeded created before that cancellation is applied afterwards
\* (a cancelled row holds the cancellation's time in subscription_ends_at).
C4_CancelledIsTerminal ==
    [][\A p \in Procs : \A u \in UserIds :
        (/\ Applies(p, "invoice.payment_succeeded")
         /\ u \in AccountsOf(proc[p].ev)
         /\ users[u].subscription_status = "cancelled"
         /\ InvoiceCreated(proc[p].ev.num) < users[u].subscription_ends_at)
        => users'[u].subscription_status = "cancelled"]_vars

\* C5: applying invoice.payment_succeeded never moves subscription_ends_at backward.
C5_EndsAtMonotonic ==
    [][\A p \in Procs : \A u \in UserIds :
        Applies(p, "invoice.payment_succeeded")
        => users'[u].subscription_ends_at >= users[u].subscription_ends_at]_vars

\* C6: once assigned, an account's stripe_customer_id never changes.
C6_CustomerIdImmutable ==
    [][\A u \in UserIds :
        users[u].stripe_customer_id # Null
        => users'[u].stripe_customer_id = users[u].stripe_customer_id]_vars

PlanTier(price) == IF price = "price_basic" THEN "basic" ELSE "premium"

\* C8: checkout.session.completed applied to a trialing account makes it active,
\* binds the event's subscription id and sets the plan to the tier purchased.
C8_CheckoutCompletedSetsTier ==
    [][\A p \in Procs : \A u \in UserIds :
        (/\ Applies(p, "checkout.session.completed")
         /\ u \in AccountsOf(proc[p].ev)
         /\ users[u].subscription_status = "trialing")
        => /\ users'[u].subscription_status = "active"
           /\ users'[u].stripe_subscription_id = proc[p].ev.subscription
           /\ users'[u].subscription_plan = PlanTier(proc[p].ev.price)]_vars

\* C9: invoice.payment_succeeded appends exactly one succeeded PaymentRecord for the
\* invoice, and applied to an active account leaves it active with
\* subscription_ends_at at the end of the invoice's period.
C9_PaymentSucceeded ==
    [][\A p \in Procs :
        /\ Records(p, "invoice.payment_succeeded")
            => /\ users' = users
               /\ BagCardinality(payments') = BagCardinality(payments) + 1
               /\ \E r \in BagToSet(payments') :
                    /\ r.stripe_invoice_id = InvoiceId(proc[p].ev)
                    /\ r.status = "succeeded"
                    /\ payments' = payments (+) SetToBag({r})
        /\ Applies(p, "invoice.payment_succeeded")
            => /\ payments' = payments
               /\ \A u \in AccountsOf(proc[p].ev) :
                    users[u].subscription_status = "active"
                    => /\ users'[u].subscription_status = "active"
                       /\ users'[u].subscription_ends_at = proc[p].ev.num + 1]_vars

C9_Witness ==
    \E u \in UserIds : \E r \in BagToSet(payments) :
        /\ resp.route = "webhook" /\ resp.status = 200
        /\ users[u].stripe_subscription_id # Null
        /\ users[u].subscription_status = "active"
        /\ users[u].subscription_ends_at # Null
        /\ r.status = "succeeded"
        /\ r.stripe_invoice_id[1] = users[u].stripe_customer_id
        /\ users[u].subscription_ends_at = r.stripe_invoice_id[2] + 1

\* C10: invoice.payment_failed appends one failed PaymentRecord carrying the failure
\* reason, and applied to an active or past_due account makes it past_due and leaves
\* its subscription id and subscription_ends_at as they were.
C10_PaymentFailed ==
    [][\A p \in Procs :
        /\ Records(p, "invoice.payment_failed")
            => /\ users' = users
               /\ \E r \in BagToSet(payments') :
                    /\ r.stripe_invoice_id = InvoiceId(proc[p].ev)
                    /\ r.status = "failed"
                    /\ r.failure_reason = proc[p].ev.message
                    /\ payments' = payments (+) SetToBag({r})
        /\ Applies(p, "invoice.payment_failed")
            => /\ payments' = payments
               /\ \A u \in AccountsOf(proc[p].ev) :
                    users[u].subscription_status \in {"active", "past_due"}
                    => /\ users'[u].subscription_status = "past_due"
                       /\ users'[u].stripe_subscription_id = users[u].stripe_subscription_id
                       /\ users'[u].subscription_ends_at = users[u].subscription_ends_at]_vars

C10_Witness ==
    \E u \in UserIds : \E r \in BagToSet(payments) :
        /\ resp.route = "webhook" /\ resp.status = 200
        /\ users[u].stripe_subscription_id # Null
        /\ users[u].subscription_status = "past_due"
        /\ r.status = "failed" /\ r.failure_reason = "card_declined"
        /\ r.amount = [whole |-> 79, frac |-> 0]
        /\ r.stripe_invoice_id[1] = users[u].stripe_customer_id

\* C11: customer.subscription.deleted applied to an active or past_due account makes
\* it cancelled with subscription_ends_at at the subscription's ended_at, and no
\* payments row is touched.
C11_SubscriptionCancelled ==
    [][\A p \in Procs :
        Applies(p, "customer.subscription.deleted")
        => /\ payments' = payments
           /\ \A u \in AccountsOf(proc[p].ev) :
                users[u].subscription_status \in {"active", "past_due"}
                => /\ users'[u].subscription_status = "cancelled"
                   /\ users'[u].subscription_ends_at = proc[p].ev.num]_vars

\* a cancelled account that had been billed: its payments rows are still there
C11_Witness ==
    \E u \in UserIds : \E r \in BagToSet(payments) :
        /\ resp.route = "webhook" /\ resp.status = 200
        /\ users[u].subscription_status = "cancelled"
        /\ users[u].subscription_ends_at \in Times
        /\ r.stripe_invoice_id[1] = users[u].stripe_customer_id

\* C12: a handled event whose metadata account id and customer id both resolve to
\* no account is dropped: its handler inserts no payments row, changes no users row
\* and answers 200.
C12_UnresolvedEventDropped ==
    [][\A p \in Procs :
        (/\ proc[p].route = "webhook" /\ Steps(p)
         /\ proc[p].ev.user_id \notin UserIds
         /\ AccountsOf(proc[p].ev) = {})
        => /\ UNCHANGED <<users, payments>>
           /\ proc'[p].pc = "idle" => resp'.status = 200]_vars

\* C13: a verified event of an unhandled type is a no-op answered 200: only events
\* of the four handled types get past the switch, and a verified webhook request
\* answered at once is answered 200 with users and payments untouched.
C13_UnhandledIsNoOp ==
    /\ [](\A p \in Procs :
            proc[p].route = "webhook"
            => proc[p].ev.type \in
                {"checkout.session.completed", "invoice.payment_succeeded",
                 "invoice.payment_failed", "customer.subscription.deleted"})
    /\ [][nreq' # nreq /\ resp'.route = "webhook" /\ resp'.cred = "genuine"
            => resp'.status = 200 /\ UNCHANGED <<users, payments>>]_vars

\* an unhandled event acknowledged while an account is already billed
C13_Witness ==
    /\ resp.route = "webhook" /\ resp.cred = "genuine" /\ resp.status = 200
    /\ \A p \in Procs : proc[p].pc = "idle"
    /\ payments = EmptyBag
    /\ \A u \in UserIds : users[u].subscription_status = "trialing"
    /\ \E u \in UserIds : users[u].stripe_customer_id # Null

\* C14: a customer-portal request of an authenticated account that has no
\* stripe_customer_id is answered 400 at once: the invocation ends before the
\* billing-portal call, and users, payments, customers and sessions are unchanged.
C14_PortalWithoutCustomer ==
    [][\A p \in Procs : \A u \in UserIds :
        (/\ users[u].stripe_customer_id = Null
         /\ PortalRequest(p, [kind |-> "bearer-valid", userId |-> u]))
        => /\ resp' = [route |-> "customer-portal", cred |-> "genuine", status |-> 400]
           /\ proc'[p].pc = "idle"
           /\ UNCHANGED <<users, payments, customers, sessions>>]_vars

\* the portal refused to one account while another one has a customer
C14_Witness ==
    /\ resp = [route |-> "customer-portal", cred |-> "genuine", status |-> 400]
    /\ \E u \in UserIds : users[u].stripe_customer_id = Null
    /\ \E u \in UserIds : users[u].stripe_customer_id # Null

\* C15: no step of a create-checkout invocation changes an account's
\* subscription_status, subscription_plan, stripe_subscription_id or
\* subscription_ends_at, whether the invocation ends in 200 or not; a step that
\* changes one of them is the users update of a webhook event.
C15_CheckoutKeepsSubscription ==
    [][LET Subscription(row) ==
               <<row.subscription_status, row.subscription_plan,
                 row.stripe_subscription_id, row.subscription_ends_at>>
           Kept == \A u \in UserIds : Subscription(users'[u]) = Subscription(users[u])
       IN  /\ (\/ resp'.route = "create-checkout"
                \/ \E p \in Procs :
                     /\ Steps(p)
                     /\ "create-checkout" \in {proc[p].route, proc'[p].route})
               => Kept
           /\ ~Kept => \E p \in Procs : proc[p].pc = "wh_update" /\ Steps(p)]_vars

\* a first checkout that went through to its session: the customer is saved and
\* the account is still on its trial
C15_Witness ==
    /\ resp = [route |-> "create-checkout", cred |-> "genuine", status |-> 200]
    /\ \E u \in UserIds :
        /\ users[u].stripe_customer_id # Null
        /\ users[u].subscription_status = "trialing"
        /\ \E s \in 1 .. Len(sessions) : sessions[s].user_id = u

\* C16: a create-checkout, customer-portal or subscription-status request whose
\* authorization header is missing, not a bearer token, or a token jwt.verify
\* rejects is answered 401 at its first step, with no store write and no processor
\* call; only requests with a valid token get past that step.
C16_Unauthorized ==
    /\ [](\A p \in Procs :
            proc[p].route \in AuthenticatedRoutes => proc[p].cred = "bearer-valid")
    /\ [](resp.route \in AuthenticatedRoutes /\ resp.cred = "forged"
            => resp.status = 401)
    /\ [][resp'.route \in AuthenticatedRoutes /\ resp'.cred = "forged"
            => UNCHANGED <<users, payments, customers, sessions, proc>>]_vars

\* a request refused while a checkout of an account with a customer is in flight
C16_Witness ==
    /\ resp.route \in AuthenticatedRoutes
    /\ resp.cred = "forged" /\ resp.status = 401
    /\ \E u \in UserIds : users[u].stripe_customer_id # Null
    /\ \E p \in Procs : proc[p].pc = "co_session"

\* C17: when a processor call of create-checkout or customer-portal fails, the
\* request is answered 500 and the caller's stripe_customer_id is what the request
\* read at its start.
C17_UpstreamFailureCommitsNothing ==
    [][\A p \in Procs :
        (/\ proc[p].pc \in {"co_create", "co_session", "po_session"}
         /\ Steps(p)
         /\ proc'[p].pc = "idle" /\ resp'.status # 200)
        => /\ resp'.status = 500
           /\ users'[proc[p].userId].stripe_customer_id = proc[p].userData]_vars

\* ------------------------------------------------------------ store faults
\* The webhook route when a store call can fail. The result of a supabase call is
\* never looked at: a call that resolves with { error } has written nothing and the
\* handler goes on; a call that rejects is caught by the handler's catch.

StoreOutcomes == {"ok", "error", "throw"}

\* payments rows of rows carrying an invoice id, counted with their copies
CountIn(rows, id) ==
    BagCardinality([r \in {x \in BagToSet(rows) : x.stripe_invoice_id = id} |-> rows[r]])

\* catch (error): 500; the processor redelivers an event that was not acknowledged
Catch(p) ==
    /\ proc' = [proc EXCEPT ![p] =
                    IF proc[p].attempt < MaxRedeliveries
                    THEN [proc[p] EXCEPT !.pc = "redeliver"] ELSE Idle]
    /\ resp' = [route |-> "webhook", cred |-> Presented(proc[p].cred), status |-> 500]

\* POST webhook, first delivery of an event: constructEvent, then the switch
Deliver(p) ==
    /\ Free(p)
    /\ nreq' = nreq + 1
    /\ \E sig \in Signatures :
        IF ~constructEvent(sig)
        THEN Return(p, "webhook", sig, 400)
        ELSE \E e \in Events :
            IF e.type \notin HandledTypes
            THEN Return(p, "webhook", sig, 200)
            ELSE Continue(p, [Idle EXCEPT !.route = "webhook", !.cred = sig, !.ev = e,
                                          !.pc = FirstWrite(e),
                                          !.before = CountIn(payments, InvoiceId(e))])
    /\ UNCHANGED <<users, payments, customers, sessions, raced, seen>>

\* POST webhook, the processor sends the event of a 500 answer again
Redeliver(p) ==
    /\ proc[p].pc = "redeliver"
    /\ Continue(p, [proc[p] EXCEPT !.pc = FirstWrite(proc[p].ev), !.attempt = @ + 1])
    /\ UNCHANGED <<users, payments, customers, sessions, nreq, raced, seen>>

\* await supabase.from('payments').insert(...)
FaultyInsert(p) ==
    /\ proc[p].pc = "wh_insert"
    /\ \E outcome \in StoreOutcomes :
        /\ payments' = IF outcome = "ok"
                       THEN InsertPayment(payments, PaymentRow(proc[p].ev))
                       ELSE payments
        /\ IF outcome = "throw"
           THEN Catch(p)
           ELSE Continue(p, [proc[p] EXCEPT !.pc = "wh_update"])
    /\ UNCHANGED <<users, customers, sessions, nreq, raced, seen>>

\* await supabase.from('users').update(...).eq('stripe_customer_id', ...), then
\* 200 {received: true}
FaultyUpdate(p) ==
    /\ proc[p].pc = "wh_update"
    /\ \E outcome \in StoreOutcomes :
        /\ users' = IF outcome = "ok"
                    THEN UpdateByCustomer(users, proc[p].ev.customer,
                                          UsersPatch(proc[p].ev))
                    ELSE users
        /\ IF outcome = "throw"
           THEN Catch(p)
           ELSE Return(p, "webhook", proc[p].cred, 200)
    /\ UNCHANGED <<payments, customers, sessions, nreq, raced, seen>>

NextFault ==
    \E p \in Procs :
        \/ StartCheckout(p)
        \/ CheckoutCreateCustomer(p)
        \/ CheckoutSaveCustomer(p)
        \/ CheckoutCreateSession(p)
        \/ Deliver(p)
        \/ Redeliver(p)
        \/ FaultyInsert(p)
        \/ FaultyUpdate(p)

SpecFault == Init /\ [][NextFault]_vars

\* the invocation of an invoice event of a known customer ends at this step, with
\* 200 or in the catch
EndsInvoiceEvent(p) ==
    /\ proc[p].pc \in {"wh_insert", "wh_update"}
    /\ proc[p].ev.type \in {"invoice.payment_succeeded", "invoice.payment_failed"}
    /\ Steps(p)
    /\ proc'[p].pc \in {"idle", "redeliver"}
\* the payments row of event e is in the table after the step
RecordedAfter(e) == PaymentRow(e) \in BagToSet(payments')
\* the accounts holding e's customer carry e's users update after the step
UpdatedAfter(e) ==
    \A u \in UserIds :
        users'[u].stripe_customer_id = e.customer
        => users'[u] = Merge(users'[u], UsersPatch(e))

\* C18: when the handler of an invoice event of a known customer ends, the
\* payments row of the event and the users update of the event are both in place
\* or both missing.
C18_AllOrNothing ==
    [][\A p \in Procs :
        EndsInvoiceEvent(p) /\ AccountsOf(proc[p].ev) # {}
        => (RecordedAfter(proc[p].ev) <=> UpdatedAfter(proc[p].ev))]_vars

\* C19: a verified event of a handled type is answered 200 only when every write of
\* its case succeeded: the payments row of an invoice event and the users update
\* are in place.
C19_FailureIsSurfaced ==
    [][\A p \in Procs :
        (/\ proc[p].pc = "wh_update" /\ Steps(p)
         /\ resp'.route = "webhook" /\ resp'.status = 200)
        => /\ UpdatedAfter(proc[p].ev)
           /\ proc[p].ev.type \in {"invoice.payment_succeeded", "invoice.payment_failed"}
              => RecordedAfter(proc[p].ev)]_vars

\* C20: when an invoice event that was answered 500 and redelivered is
\* acknowledged, payments holds one more row of the event's invoice than before
\* the first delivery, as after one application, and not more.
C20_RedeliveryAppliesOnce ==
    [][\A p \in Procs :
        (/\ proc[p].pc = "wh_update" /\ proc[p].attempt > 0 /\ Steps(p)
         /\ proc[p].ev.type \in {"invoice.payment_succeeded", "invoice.payment_failed"}
         /\ resp'.route = "webhook" /\ resp'.status = 200
         /\ RecordedAfter(proc[p].ev))
        => CountIn(payments', InvoiceId(proc[p].ev)) = proc[p].before + 1]_vars

\* the subscription columns of a users row
SubscriptionState(row) ==
    <<row.subscription_status, row.subscription_plan,
      row.stripe_subscription_id, row.subscription_ends_at>>

\* C21: a step that changes the subscription columns of an account, or the payments
\* table in any way, is a write of a webhook invocation whose event was verified;
\* create-checkout, customer-portal, subscription-status and the other routes
\* change neither.
C21_ReconcilerIsOnlyWriter ==
    [][(\/ payments' # payments
        \/ \E u \in UserIds : SubscriptionState(users'[u]) # SubscriptionState(users[u]))
       => \E p \in Procs :
            /\ proc[p].route = "webhook" /\ proc[p].cred = "valid"
            /\ proc[p].pc \in {"wh_insert", "wh_update"}
            /\ Steps(p)]_vars

\* a billed account opens the portal: the payments row and the account's
\* subscription columns written by the webhook are as they were
C21_Witness ==
    /\ resp = [route |-> "customer-portal", cred |-> "genuine", status |-> 200]
    /\ \E u \in UserIds : \E r \in BagToSet(payments) :
        /\ users[u].subscription_status = "active"
        /\ users[u].subscription_ends_at # Null
        /\ r.client_id = u

\* C22: the users update of a handled event goes to the account its metadata
\* user_id names when that is a known account, and only otherwise to the accounts
\* holding the event's customer id (stated for updates made while no
\* create-checkout is between creating a customer and answering).
C22_MetadataResolvesFirst ==
    [][\A p \in Procs :
        (/\ proc[p].pc = "wh_update" /\ Steps(p)
         /\ \A q \in Procs : proc[q].route # "create-checkout")
        => users' = IF proc[p].ev.user_id \in UserIds
                    THEN UpdateById(users, proc[p].ev.user_id, UsersPatch(proc[p].ev))
                    ELSE UpdateByCustomer(users, proc[p].ev.customer,
                                          UsersPatch(proc[p].ev))]_vars

\* ------------------------------------------------------ order of verification
\* The webhook route with the order recorded in which events were verified: seen
\* holds, for each account, the subscription_status the last event verified for it
\* writes.

\* POST webhook: constructEvent, then the switch on the event type; the accounts
\* holding the event's customer id have now seen the event
VerifyWebhook(p) ==
    /\ Free(p)
    /\ nreq' = nreq + 1
    /\ \E sig \in Signatures :
        IF ~constructEvent(sig)
        THEN Return(p, "webhook", sig, 400) /\ UNCHANGED seen
        ELSE \E e \in Events :
            IF e.type \notin HandledTypes
            THEN Return(p, "webhook", sig, 200) /\ UNCHANGED seen
            ELSE /\ Continue(p, [Idle EXCEPT !.route = "webhook", !.cred = sig, !.ev = e,
                                             !.pc = FirstWrite(e)])
                 /\ seen' = [u \in UserIds |->
                                IF u \in AccountsOf(e)
                                THEN UsersPatch(e).subscription_status ELSE seen[u]]
    /\ UNCHANGED <<users, payments, customers, sessions, raced>>

NextOrder ==
    \E p \in Procs :
        \/ StartCheckout(p)
        \/ CheckoutCreateCustomer(p)
        \/ CheckoutSaveCustomer(p)
        \/ CheckoutCreateSession(p)
        \/ VerifyWebhook(p)
        \/ WebhookInsert(p)
        \/ WebhookUpdate(p)

SpecOrder == Init /\ [][NextOrder]_vars

\* C23: when no webhook invocation is in flight, the subscription_status of every
\* account is the one written by the last event that was verified for it.
C23_StatusOfLastVerified ==
    (\A p \in Procs : proc[p].route # "webhook")
    => \A u \in UserIds :
        seen[u] # "none" => users[u].subscription_status = seen[u]

\* C24: the payments table only grows: every step leaves each stored row in place,
\* with all its copies, and at most adds rows.
C24_LedgerAppendOnly ==
    [][payments \sqsubseteq payments']_vars

\* an invoice that failed and was then paid: both rows are in the table
C24_Witness ==
    \E r1, r2 \in BagToSet(payments) :
        /\ r1.status = "failed" /\ r2.status = "succeeded"
        /\ r1.stripe_invoice_id = r2.stripe_invoice_id
        /\ r1.client_id \in UserIds

\* C25: a create-checkout whose token names an account with no users row is
\* answered at once with an error of its own, not the 500 a failed processor call
\* is answered with, and creates no customer and no checkout session.
C25_AccountNotFound ==
    [][\A p \in Procs : \A priceId \in PriceIds :
        CheckoutRequest(p, [kind |-> "bearer-valid", userId |-> UnknownUser],
                        TRUE, priceId)
        => /\ resp'.route = "create-checkout" /\ resp'.status \notin {200, 500}
           /\ proc'[p].pc = "idle"
           /\ UNCHANGED <<customers, sessions>>]_vars

\* C26: the amount of every payments row, succeeded or failed, is the amount of its
\* invoice in cents divided by 100: whole units and cents add up to the event's
\* amount, and 7900 is stored as 79.00.
C26_AmountInMajorUnits ==
    \A r \in BagToSet(payments) :
        LET cents == InvoiceAmount(r.stripe_invoice_id[2]) IN
        /\ r.amount.frac \in 0 .. 99
        /\ r.amount.whole * 100 + r.amount.frac = cents
        /\ cents = 7900 => r.amount = [whole |-> 79, frac |-> 0]

\* a failed invoice of 79.00 and a paid invoice of 29.99 are both on record
C26_Witness ==
    \E r1, r2 \in BagToSet(payments) :
        /\ r1.status = "failed" /\ r1.amount = [whole |-> 79, frac |-> 0]
        /\ r2.status = "succeeded" /\ r2.amount = [whole |-> 29, frac |-> 99]

\* C27: checkout.session.completed for any session a create-checkout returned makes
\* the account that bought it active, also when the session's customer is the
\* duplicate whose id a racing create-checkout overwrote on the account's row.
C27_DuplicateCustomerHarmless ==
    [][\A p \in Procs :
        Applies(p, "checkout.session.completed")
        => users'[proc[p].ev.user_id].subscription_status = "active"]_vars

\* C28: no two accounts hold the same stripe_customer_id: a customer id on a users
\* row is the id of a customer created for that account, so the customer id of any
\* event the processor can send selects at most one account.
C28_CustomerIdUnique ==
    /\ \A u \in UserIds :
        users[u].stripe_customer_id # Null
        => /\ users[u].stripe_customer_id \in 1 .. Len(customers)
           /\ customers[users[u].stripe_customer_id] = u
    /\ \A u1, u2 \in UserIds :
        (u1 # u2 /\ users[u1].stripe_customer_id # Null)
        => users[u1].stripe_customer_id # users[u2].stripe_customer_id
    /\ \A c \in EventCustomers : \A u1, u2 \in UserIds :
        (users[u1].stripe_customer_id = c /\ users[u2].stripe_customer_id = c)
        => u1 = u2

\* two accounts, each with its own customer, one of them made active by an event
C28_Witness ==
    /\ \A u \in UserIds : users[u].stripe_customer_id # Null
    /\ \E u \in UserIds : users[u].subscription_status = "active"
    /\ \E u \in UserIds : users[u].subscription_status = "trialing"

\* C29: the users update of a handled event writes the status of its type on the
\* accounts holding the event's customer id, whatever their status was:
\* checkout.session.completed and invoice.payment_succeeded write active (also on a
\* past_due account), invoice.payment_failed past_due, customer.subscription.deleted
\* cancelled.
C29_StatusFromEventType ==
    [][\A p \in Procs : \A u \in UserIds :
        (proc[p].pc = "wh_update" /\ Steps(p) /\ u \in AccountsOf(proc[p].ev))
        => users'[u].subscription_status =
             CASE proc[p].ev.type = "checkout.session.completed" -> "active"
               [] proc[p].ev.type = "invoice.payment_succeeded" -> "active"
               [] proc[p].ev.type = "invoice.payment_failed" -> "past_due"
               [] proc[p].ev.type = "customer.subscription.deleted" -> "cancelled"]_vars

\* an account that went past_due on a failed invoice is active again after a
\* payment: both rows are on record and nothing is in flight
C29_Witness ==
    /\ \A p \in Procs : proc[p].pc = "idle"
    /\ resp = [route |-> "webhook", cred |-> "genuine", status |-> 200]
    /\ \E u \in UserIds : \E f, r \in BagToSet(payments) :
        /\ users[u].subscription_status = "active"
        /\ users[u].subscription_ends_at # Null
        /\ f.status = "failed" /\ f.stripe_invoice_id[1] = users[u].stripe_customer_id
        /\ r.status = "succeeded" /\ r.stripe_invoice_id[1] = users[u].stripe_customer_id
        /\ BagCardinality(payments) = 2

\* awaited calls left before the invocation returns, at most
CallsLeft(pc) ==
    CASE pc = "idle" -> 0
      [] pc \in {"co_session", "wh_update", "po_session"} -> 1
      [] pc \in {"co_save", "wh_insert"} -> 2
      [] pc = "co_create" -> 3
\* the next awaited call of invocation p settles
Advance(p) ==
    \/ CheckoutCreateCustomer(p) \/ CheckoutSaveCustomer(p) \/ CheckoutCreateSession(p)
    \/ WebhookInsert(p) \/ WebhookUpdate(p) \/ PortalCreateSession(p)

\* C30: every invocation ends with one response, of status 200, 400, 401, 404 or
\* 500: an invocation in flight can always take its next step and every step
\* brings it closer to its return; the step that ends it, and no other, sets the
\* response; a create-checkout that throws before its first awaited call settles
\* (a body that does not parse, no users row) and a processor call that fails are
\* answered 500; an unknown path or method is answered 404 and changes nothing.
C30_OneResponse ==
    /\ [](/\ resp = NoResponse \/ resp.status \in {200, 400, 401, 404, 500}
          /\ \A p \in Procs : proc[p].pc # "idle" => ENABLED Advance(p))
    /\ [][/\ \A p \in Procs :
                (Steps(p) /\ proc[p].pc # "idle")
                => /\ CallsLeft(proc'[p].pc) < CallsLeft(proc[p].pc)
                   /\ (proc'[p].pc = "idle") <=> (resp' # NoResponse)
                   /\ (proc'[p].pc = "idle" /\ resp'.status # 200)
                        => (resp'.status = 500)
          /\ (nreq' # nreq /\ resp' = NoResponse) => (\E p \in Procs : Steps(p))
          /\ (resp'.status = 404)
                => (UNCHANGED <<users, payments, customers, sessions, proc>>)
          /\ (resp'.route = "create-checkout" /\ resp'.cred = "genuine" /\ nreq' # nreq)
                => (resp'.status = 500)]_vars

\* an unknown path answered 404 while a checkout that saved its customer is in
\* flight
C30_Witness ==
    /\ resp = [route |-> "not-found", cred |-> "none", status |-> 404]
    /\ \E p \in Procs :
        /\ proc[p].pc = "co_session"
        /\ users[proc[p].userId].stripe_customer_id = proc[p].customerId

====
